---- MODULE Spec2Model ----
(***************************************************************************)
(* url_normalize: UrlNormalizer (src/src/normalizer.rs).                   *)
(*                                                                         *)
(* Strings are sequences of one-character strings.  Rust indexes from 0,   *)
(* TLA+ sequences from 1: At(s, p) is the Rust s[p].  A Rust panic (an     *)
(* index out of range, an integer underflow) is the control state "panic". *)
(***************************************************************************)
EXTENDS Integers, Sequences, FiniteSets, TLC

\* Longest path enumerated exhaustively by a direct normalize_path call.
MaxLen == 5

\* The sentinel '\0' that split writes over every separator.
NUL == "NUL"

\* Characters of the exhaustively enumerated paths.
PathAlphabet == {"a", ".", "/", ":"}

\* Longer paths taken from the documentation and the tests.
ExamplePaths ==
  { <<"p","/","t","/",".",".","/","f","/",".","/","x">>,
    <<"/",".","/","m",".","p","h","p">>,
    <<".",".","/",".",".","/","x">>,
    <<"/","/","a","b","/","/","/","c","/","/">> }

SeqsUpTo(S, n) == UNION { [1..k -> S] : k \in 0..n }

PathInputs == (SeqsUpTo(PathAlphabet, MaxLen) \ {<<>>}) \cup ExamplePaths

At(s, p) == s[p + 1]

\* s with s[p] = c
Put(s, p, c) == [s EXCEPT ![p + 1] = c]

(***************************************************************************)
(* Scanning helpers: the inner while loops of the path routines.           *)
(***************************************************************************)
RECURSIVE SkipSlashes(_, _)
\* while p <= end { if path[p] != '/' break; p += 1 }
SkipSlashes(path, p) ==
  IF p <= Len(path) - 1 /\ At(path, p) = "/" THEN SkipSlashes(path, p + 1) ELSE p

RECURSIVE NextSlash(_, _)
\* while p <= end { if path[p] != '/' { p += 1; continue } ... }: the first
\* index >= p holding '/', or end + 1
NextSlash(path, p) ==
  IF p <= Len(path) - 1 /\ At(path, p) # "/" THEN NextSlash(path, p + 1) ELSE p

RECURSIVE NextNul(_, _)
\* while (p <= end) && (path[p] != '\0') { p += 1 }
NextNul(path, p) ==
  IF p <= Len(path) - 1 /\ At(path, p) # NUL THEN NextNul(path, p + 1) ELSE p

\* path with the cells lo..hi-1 set to '\0'
ZeroRange(path, lo, hi) ==
  [k \in 1..Len(path) |-> IF (k - 1 >= lo) /\ (k - 1 < hi) THEN NUL ELSE path[k]]

(***************************************************************************)
(* needs_normalization                                                     *)
(***************************************************************************)
\* The dot-segment test at the head of a segment (lines 193-198).
IsDotHead(path, p) ==
  LET end == Len(path) - 1 IN
  At(path, p) = "."
  /\ ( (p = end)
       \/ ( (At(path, p + 1) = "/")
            \/ ( (At(path, p + 1) = ".")
                 /\ ((p + 1 = end) \/ (At(path, p + 2) = "/")) ) ) )

RECURSIVE NeedsLoop(_, _, _, _)
\* The main loop (lines 192-217): one iteration per segment.
NeedsLoop(path, p, ns, normal) ==
  LET end == Len(path) - 1 IN
  IF p > end THEN [ns |-> ns, normal |-> normal]
  ELSE
    LET normal1 == IF IsDotHead(path, p) THEN FALSE ELSE normal
        q       == NextSlash(path, p)
        r       == IF q > end THEN q ELSE SkipSlashes(path, q + 1)
        normal2 == IF (q <= end) /\ (r > q + 1) THEN FALSE ELSE normal1
    IN NeedsLoop(path, r, ns + 1, normal2)

\* -1 when the path is already normal, else the number of segments.
needs_normalization(path) ==
  LET p == SkipSlashes(path, 0)
      r == NeedsLoop(path, p, 0, ~(p > 1))
  IN IF r.normal THEN -1 ELSE r.ns

(***************************************************************************)
(* split                                                                   *)
(***************************************************************************)
RECURSIVE SplitLoop(_, _, _, _)
\* The main loop (lines 239-259).  segs[i] = p panics when i is past the
\* table.
SplitLoop(path, segs, p, i) ==
  LET end == Len(path) - 1 IN
  IF p > end THEN [panic |-> FALSE, path |-> path, segs |-> segs, i |-> i]
  ELSE IF i >= Len(segs)
  THEN [panic |-> TRUE, path |-> path, segs |-> segs, i |-> i]
  ELSE
    LET segs1 == Put(segs, i, p)
        q     == NextSlash(path, p + 1)
        r     == IF q > end THEN q ELSE SkipSlashes(path, q + 1)
        path1 == IF q > end THEN path ELSE ZeroRange(path, q, r)
    IN SplitLoop(path1, segs1, r, i + 1)

\* [panic, err, path, segs]: err is the InternalError of line 261.
split(path, seg_size) ==
  LET p0    == SkipSlashes(path, 0)
      path0 == ZeroRange(path, 0, p0)
      segs0 == [k \in 1..seg_size |-> 0]
      r     == SplitLoop(path0, segs0, p0, 0)
  IN [panic |-> r.panic, err |-> (r.i # Len(r.segs)), path |-> r.path, segs |-> r.segs]

(***************************************************************************)
(* remove_dots: one iteration of the outer for loop                        *)
(***************************************************************************)
RECURSIVE DotScan(_, _, _)
\* The inner loop (lines 272-291), from index i.  segs[i] = -1 converts to
\* usize::MAX and path[p] panics.
DotScan(path, segs, i) ==
  LET end == Len(path) - 1
      ns  == Len(segs)
      p   == At(segs, i)
  IN
  IF p = -1 THEN [panic |-> TRUE, i |-> i, dots |-> 0]
  ELSE IF At(path, p) = "." /\ p = end THEN [panic |-> FALSE, i |-> i, dots |-> 1]
  ELSE IF At(path, p) = "." /\ At(path, p + 1) = NUL THEN [panic |-> FALSE, i |-> i, dots |-> 1]
  ELSE IF At(path, p) = "." /\ (At(path, p + 1) = ".")
          /\ ((p + 1 = end) \/ (At(path, p + 2) = NUL))
  THEN [panic |-> FALSE, i |-> i, dots |-> 2]
  ELSE IF i + 1 >= ns THEN [panic |-> FALSE, i |-> i + 1, dots |-> 0]
  ELSE DotScan(path, segs, i + 1)

RECURSIVE Lookback(_, _, _)
\* for k in (0..=i - 1).rev() { if segs[k] != -1 { break; } j = k; }
\* called with k = i - 1 and j = 0
Lookback(segs, k, j) ==
  IF k < 0 THEN j
  ELSE IF At(segs, k) # -1 THEN j
  ELSE Lookback(segs, k - 1, k)

\* The ".." branch (lines 298-313) for the ".." at index i.  i = 0 makes
\* i - 1 underflow: a panic in a debug build, and in a release build the
\* range starts at usize::MAX and segs[k] panics.  segs[j] = -1 converts to
\* usize::MAX and path[q] panics.
CancelParent(path, segs, i) ==
  IF i = 0 THEN [panic |-> TRUE, segs |-> segs]
  ELSE
    LET j == Lookback(segs, i - 1, 0)
        q == At(segs, j)
    IN IF q = -1 THEN [panic |-> TRUE, segs |-> segs]
       ELSE IF ~( (At(path, q) = ".") /\ At(path, q + 1) = "." /\ At(path, q + 2) = NUL )
       THEN [panic |-> FALSE, segs |-> Put(Put(segs, i, -1), j, -1)]
       ELSE [panic |-> FALSE, segs |-> segs]

\* One outer iteration starting at index i: [panic, brk, segs].
RemoveDotsIter(path, segs, i) ==
  LET ns == Len(segs)
      s  == DotScan(path, segs, i)
  IN IF s.panic THEN [panic |-> TRUE, brk |-> FALSE, segs |-> segs]
     ELSE IF (s.i > ns) \/ (s.dots = 0) THEN [panic |-> FALSE, brk |-> TRUE, segs |-> segs]
     ELSE IF s.dots = 1 THEN [panic |-> FALSE, brk |-> FALSE, segs |-> Put(segs, s.i, -1)]
     ELSE LET c == CancelParent(path, segs, s.i)
          IN [panic |-> c.panic, brk |-> FALSE, segs |-> c.segs]

(***************************************************************************)
(* maybe_add_leading_dot                                                   *)
(***************************************************************************)
RECURSIVE FirstKept(_, _)
\* while f < ns { if segs[f] >= 0 break; f += 1 }
FirstKept(segs, f) ==
  IF f < Len(segs) /\ ~(At(segs, f) >= 0) THEN FirstKept(segs, f + 1) ELSE f

RECURSIVE ColonScan(_, _)
\* while p < path.len() && (path[p] != ':') && path[p] != '\0' { p += 1 }
ColonScan(path, p) ==
  IF p < Len(path) /\ (At(path, p) # ":") /\ At(path, p) # NUL
  THEN ColonScan(path, p + 1) ELSE p

\* [path, segs]
maybe_add_leading_dot(path, segs) ==
  LET same == [path |-> path, segs |-> segs]
      ns   == Len(segs)
      f    == FirstKept(segs, 0)
  IN IF At(path, 0) = NUL THEN same
     ELSE IF (f >= ns) \/ (f = 0) THEN same
     ELSE LET p == ColonScan(path, At(segs, f))
          IN IF p >= Len(path) \/ At(path, p) = NUL THEN same
             ELSE [path |-> Put(Put(path, 0, "."), 1, NUL), segs |-> Put(segs, 0, 0)]

(***************************************************************************)
(* join                                                                    *)
(***************************************************************************)
\* CopyDown reading one cell too far to the right.
CopyDownOffByOne(path, p, q, len) ==
  [k \in 1..Len(path) |->
     IF (k - 1 >= p) /\ (k - 1 < p + len)
     THEN (IF k + (q - p) + 1 <= Len(path) THEN path[k + (q - p) + 1] ELSE NUL)
     ELSE path[k]]

\* path with the len cells from q copied down to p (p < q)
CopyDown(path, p, q, len) ==
  [k \in 1..Len(path) |->
     IF (k - 1 >= p) /\ (k - 1 < p + len) THEN path[k + (q - p)] ELSE path[k]]

RECURSIVE JoinLoop(_, _, _, _)
\* The for loop (lines 361-388): [err, path, p].
JoinLoop(path, segs, i, p) ==
  LET end == Len(path) - 1
      q   == At(segs, i)
  IN
  IF i >= Len(segs) THEN [err |-> FALSE, path |-> path, p |-> p]
  ELSE IF q = -1 THEN JoinLoop(path, segs, i + 1, p)
  ELSE IF p = q THEN
    LET p1 == NextNul(path, p)
    IN IF p1 <= end THEN JoinLoop(Put(path, p1, "/"), segs, i + 1, p1 + 1)
       ELSE JoinLoop(path, segs, i + 1, p1)
  ELSE IF p < q THEN
    LET q1    == NextNul(path, q)
        len   == q1 - q
        path1 == CopyDown(path, p, q, len)
    IN IF q1 <= end THEN JoinLoop(Put(path1, p + len, "/"), segs, i + 1, p + len + 1)
       ELSE JoinLoop(path1, segs, i + 1, p + len)
  ELSE [err |-> TRUE, path |-> path, p |-> p]

\* [err, path, p]: err is the InternalError of line 386.
join(path, segs) ==
  IF At(path, 0) = NUL THEN JoinLoop(Put(path, 0, "/"), segs, 0, 1)
  ELSE JoinLoop(path, segs, 0, 0)

(***************************************************************************)
(* Characters and bytes.  Ascii lists the printable characters in code     *)
(* order from 0x20; DQUOTE, BSLASH and BTICK stand for the double     *)
(* quote, the backslash and the backtick.  The inputs                      *)
(* hold printable ASCII only, and percent-escapes of printable ASCII or of *)
(* the byte 0xFF.                                                          *)
(***************************************************************************)
Ascii ==
  << " ", "!", "DQUOTE", "#", "$", "%", "&", "'", "(", ")", "*", "+", ",", "-", ".", "/",
     "0", "1", "2", "3", "4", "5", "6", "7", "8", "9", ":", ";", "<", "=", ">", "?",
     "@", "A", "B", "C", "D", "E", "F", "G", "H", "I", "J", "K", "L", "M", "N", "O",
     "P", "Q", "R", "S", "T", "U", "V", "W", "X", "Y", "Z", "[", "BSLASH", "]", "^", "_",
     "BTICK", "a", "b", "c", "d", "e", "f", "g", "h", "i", "j", "k", "l", "m", "n", "o",
     "p", "q", "r", "s", "t", "u", "v", "w", "x", "y", "z", "{", "|", "}", "~" >>

\* The byte of a character, and the character of a byte.
Ord(c) == 31 + (CHOOSE i \in 1..Len(Ascii) : Ascii[i] = c)
Chr(b) == Ascii[b - 31]

UpperHex == <<"0","1","2","3","4","5","6","7","8","9","A","B","C","D","E","F">>
LowerHex == <<"0","1","2","3","4","5","6","7","8","9","a","b","c","d","e","f">>

IsHex(c) == \E i \in 1..16 : UpperHex[i] = c \/ LowerHex[i] = c
HexVal(c) == (CHOOSE i \in 1..16 : UpperHex[i] = c \/ LowerHex[i] = c) - 1

Alnum ==
  { Ascii[i] : i \in (17..26) \cup (34..59) \cup (66..91) }

\* "%XX" of a byte, upper case.
PercentByte(b) == <<"%", UpperHex[(b \div 16) + 1], UpperHex[(b % 16) + 1]>>

RECURSIVE Concat(_)
\* The concatenation of a sequence of strings.
Concat(ss) == IF ss = <<>> THEN <<>> ELSE Head(ss) \o Concat(Tail(ss))

RECURSIVE JoinWith(_, _)
\* [T]::join(sep)
JoinWith(ss, sep) ==
  IF ss = <<>> THEN <<>>
  ELSE IF Len(ss) = 1 THEN Head(ss)
  ELSE Head(ss) \o sep \o JoinWith(Tail(ss), sep)

\* The first position of character c in s, or Len(s) + 1.
IndexOf(s, c) ==
  IF \E i \in 1..Len(s) : s[i] = c
  THEN CHOOSE i \in 1..Len(s) : s[i] = c /\ \A j \in 1..(i - 1) : s[j] # c
  ELSE Len(s) + 1

RECURSIVE SplitOn(_, _)
\* str::split(c): the pieces between the occurrences of c, empty ones kept.
SplitOn(s, c) ==
  LET i == IndexOf(s, c) IN
  IF i > Len(s) THEN <<s>>
  ELSE <<SubSeq(s, 1, i - 1)>> \o SplitOn(SubSeq(s, i + 1, Len(s)), c)

\* str::splitn(2, c)
Splitn2(s, c) ==
  LET i == IndexOf(s, c) IN
  IF i > Len(s) THEN <<s>>
  ELSE <<SubSeq(s, 1, i - 1), SubSeq(s, i + 1, Len(s))>>

RECURSIVE ReplaceSlashDollar(_)
\* String::replace("/$", ""): the pattern is a literal, not a regex.
ReplaceSlashDollar(s) ==
  IF Len(s) < 2 THEN s
  ELSE IF s[1] = "/" /\ s[2] = "$" THEN ReplaceSlashDollar(SubSeq(s, 3, Len(s)))
  ELSE <<s[1]>> \o ReplaceSlashDollar(Tail(s))

(***************************************************************************)
(* urlencoding::encode and urlencoding::decode                             *)
(***************************************************************************)
Unreserved == Alnum \cup {"-", "_", ".", "~"}

EncodeChar(c) == IF c \in Unreserved THEN <<c>> ELSE PercentByte(Ord(c))

\* encode(s): every byte outside the unreserved set becomes %XX.
encode(s) == Concat([i \in 1..Len(s) |-> EncodeChar(s[i])])

RECURSIVE DecodeBytes(_)
\* The bytes decode produces: a well-formed %XX is one byte, anything else
\* stands for itself.
DecodeBytes(s) ==
  IF s = <<>> THEN <<>>
  ELSE IF s[1] = "%" /\ Len(s) >= 3 /\ IsHex(s[2]) /\ IsHex(s[3])
  THEN <<16 * HexVal(s[2]) + HexVal(s[3])>> \o DecodeBytes(SubSeq(s, 4, Len(s)))
  ELSE <<Ord(s[1])>> \o DecodeBytes(Tail(s))

\* decode(s): [ok, val].  The bytes must be UTF-8: a byte of 0x80 or more
\* that no multi-byte sequence accounts for (the inputs hold only 0xFF) is
\* the error.
decode(s) ==
  LET bs == DecodeBytes(s) IN
  IF \E i \in 1..Len(bs) : bs[i] >= 128 THEN [ok |-> FALSE, val |-> <<>>]
  ELSE [ok |-> TRUE, val |-> [i \in 1..Len(bs) |-> Chr(bs[i])]]

(***************************************************************************)
(* regex::Regex, for the patterns of RegexPool: literals, dot, a postfix   *)
(* star, a leading ^, a trailing $; an unclosed [ or ( does not compile.    *)
(***************************************************************************)
\* Regex::new(r).is_ok()
RegexCompiles(r) ==
  /\ \A i \in 1..Len(r) : r[i] = "[" => \E j \in (i + 1)..Len(r) : r[j] = "]"
  /\ \A i \in 1..Len(r) : r[i] = "(" => \E j \in (i + 1)..Len(r) : r[j] = ")"
  /\ (r # <<>> => r[1] # "*")

RECURSIVE MatchHere(_, _, _, _)
\* Whether r from position a matches key from position k on.
MatchHere(r, a, key, k) ==
  IF a > Len(r) THEN TRUE
  ELSE IF r[a] = "^" /\ a = 1 THEN k = 1 /\ MatchHere(r, a + 1, key, k)
  ELSE IF r[a] = "$" /\ a = Len(r) THEN k = Len(key) + 1
  ELSE IF a < Len(r) /\ r[a + 1] = "*"
  THEN \E n \in 0..(Len(key) + 1 - k) :
         /\ \A m \in k..(k + n - 1) : (r[a] = "." \/ key[m] = r[a])
         /\ MatchHere(r, a + 2, key, k + n)
  ELSE /\ k <= Len(key)
       /\ (r[a] = "." \/ key[k] = r[a])
       /\ MatchHere(r, a + 1, key, k + 1)

\* Regex::is_match: unanchored, the pattern may match anywhere in the key.
is_match(r, key) == \E k \in 1..(Len(key) + 1) : MatchHere(r, 1, key, k)

(***************************************************************************)
(* create_parameter_map                                                    *)
(***************************************************************************)
RECURSIVE StrLess(_, _)
\* String's Ord: byte-wise lexicographic.
StrLess(s, t) ==
  IF t = <<>> THEN FALSE
  ELSE IF s = <<>> THEN TRUE
  ELSE IF s[1] # t[1] THEN Ord(s[1]) < Ord(t[1])
  ELSE StrLess(Tail(s), Tail(t))

\* An insert that keeps insertion order: an equal key has its value
\* replaced, a new key goes last.
BTreeInsertUnsorted(m, k, v) ==
  IF \E i \in 1..Len(m) : m[i][1] = k
  THEN [i \in 1..Len(m) |-> IF m[i][1] = k THEN <<k, v>> ELSE m[i]]
  ELSE Append(m, <<k, v>>)

RECURSIVE BTreeInsert(_, _, _)
\* BTreeMap::insert on a map held as the sequence of its <<key, value>>
\* entries in key order: an equal key has its value replaced.
BTreeInsert(m, k, v) ==
  IF m = <<>> THEN << <<k, v>> >>
  ELSE IF m[1][1] = k THEN << <<k, v>> >> \o Tail(m)
  ELSE IF StrLess(k, m[1][1]) THEN << <<k, v>> >> \o m
  ELSE <<m[1]>> \o BTreeInsert(Tail(m), k, v)

RECURSIVE TakeWhileOk(_)
\* .map(decode).take_while(is_ok).map(unwrap)
TakeWhileOk(parts) ==
  IF parts = <<>> THEN <<>>
  ELSE LET d == decode(Head(parts)) IN
       IF d.ok THEN <<d.val>> \o TakeWhileOk(Tail(parts)) ELSE <<>>

\* split_token: [some, key, val]
split_token(pair, tokens) ==
  IF Len(tokens) = 1 THEN
    IF pair[1] = "=" THEN [some |-> TRUE, key |-> <<>>, val |-> tokens[1]]
    ELSE [some |-> TRUE, key |-> tokens[1], val |-> <<>>]
  ELSE IF Len(tokens) = 2 THEN [some |-> TRUE, key |-> tokens[1], val |-> tokens[2]]
  ELSE [some |-> FALSE, key |-> <<>>, val |-> <<>>]

\* InsertPair matching the rules against the key as written in the query,
\* not as decoded.
InsertPairRawKey(params, pair, rules) ==
  IF Len(pair) < 1 THEN params
  ELSE LET token == split_token(pair, TakeWhileOk(Splitn2(pair, "="))) IN
       IF ~token.some THEN params
       ELSE IF \E i \in 1..Len(rules) : is_match(rules[i], Splitn2(pair, "=")[1]) THEN params
       ELSE BTreeInsert(params, token.key, token.val)

\* The body of the 'pair loop for one pair (lines 121-138).
InsertPair(params, pair, rules) ==
  IF Len(pair) < 1 THEN params
  ELSE LET token == split_token(pair, TakeWhileOk(Splitn2(pair, "="))) IN
       IF ~token.some THEN params
       ELSE IF \E i \in 1..Len(rules) : is_match(rules[i], token.key) THEN params
       ELSE BTreeInsert(params, token.key, token.val)

RECURSIVE PairLoop(_, _, _)
PairLoop(params, pairs, rules) ==
  IF pairs = <<>> THEN params
  ELSE PairLoop(InsertPair(params, Head(pairs), rules), Tail(pairs), rules)

\* The last pattern that does not compile, or 0.
LastBadRule(rules) ==
  IF \E i \in 1..Len(rules) : ~RegexCompiles(rules[i])
  THEN CHOOSE i \in 1..Len(rules) :
         ~RegexCompiles(rules[i]) /\ \A j \in (i + 1)..Len(rules) : RegexCompiles(rules[j])
  ELSE 0

\* The first pattern that does not compile, or 0 (lines 113-118).
FirstBadRule(rules) ==
  IF \E i \in 1..Len(rules) : ~RegexCompiles(rules[i])
  THEN CHOOSE i \in 1..Len(rules) :
         ~RegexCompiles(rules[i]) /\ \A j \in 1..(i - 1) : RegexCompiles(rules[j])
  ELSE 0

\* create_parameter_map(query, remove_param_regex): [err, pat, params].
\* query is [some, val]; remove_param_regex is [some, val].
create_parameter_map(query, remove_param_regex) ==
  IF ~query.some THEN [err |-> FALSE, pat |-> <<>>, params |-> <<>>]
  ELSE
    LET rules == IF remove_param_regex.some THEN remove_param_regex.val ELSE <<>>
        bad   == FirstBadRule(rules)
    IN IF bad # 0 THEN [err |-> TRUE, pat |-> rules[bad], params |-> <<>>]
       ELSE [err |-> FALSE, pat |-> <<>>,
             params |-> PairLoop(<<>>, SplitOn(query.val, "&"), rules)]

(***************************************************************************)
(* url::Url.  A URL text is [scheme, authority, host, port, tail]: the     *)
(* scheme, whether "//" and an authority follow it, the host, the port     *)
(* (-1: none written) and the text from the path on.  A parsed Url is      *)
(* [scheme, has_host, host, port, cannot_be_a_base, path, query], query    *)
(* being [some, val].                                                      *)
(***************************************************************************)
NoPort == -1

\* The schemes the URL parser calls special, with their default ports.
IsSpecial(scheme) == scheme \in {"http", "https"}
DefaultPort(scheme) ==
  IF scheme = "http" THEN 80 ELSE IF scheme = "https" THEN 443 ELSE NoPort

\* The characters the parser percent-encodes in a path, and in a query.
PathEncodeSet == {" ", "DQUOTE", "#", "<", ">", "?", "BTICK", "{", "}"}
QueryEncodeSet == {" ", "DQUOTE", "#", "<", ">"}

PercentEncode(s, set) ==
  Concat([i \in 1..Len(s) |-> IF s[i] \in set THEN PercentByte(Ord(s[i])) ELSE <<s[i]>>])

RECURSIVE ShortenPath(_, _)
\* The parser's path state over the "/"-separated pieces after the leading
\* slash: "." is dropped, ".." pops, and either as the last piece leaves an
\* empty last segment.
ShortenPath(pieces, out) ==
  IF pieces = <<>> THEN out
  ELSE
    LET s    == Head(pieces)
        last == Len(pieces) = 1
    IN IF s = <<".", ".">>
       THEN LET popped == IF out = <<>> THEN out ELSE SubSeq(out, 1, Len(out) - 1)
            IN ShortenPath(Tail(pieces), IF last THEN Append(popped, <<>>) ELSE popped)
       ELSE IF s = <<".">>
       THEN ShortenPath(Tail(pieces), IF last THEN Append(out, <<>>) ELSE out)
       ELSE ShortenPath(Tail(pieces), Append(out, PercentEncode(s, PathEncodeSet)))

\* The path of a hierarchical URL as the parser stores it.  An empty path
\* stays empty except under a special scheme.
HierPath(p, special) ==
  IF p = <<>> THEN (IF special THEN <<"/">> ELSE <<>>)
  ELSE LET body == IF p[1] = "/" THEN Tail(p) ELSE p
       IN <<"/">> \o JoinWith(ShortenPath(SplitOn(body, "/"), <<>>), <<"/">>)

\* Url::parse (line 37) of a URL text.
UrlParse(raw) ==
  LET h     == IndexOf(raw.tail, "#")
      nofr  == SubSeq(raw.tail, 1, h - 1)
      q     == IndexOf(nofr, "?")
      p     == SubSeq(nofr, 1, q - 1)
      hier  == raw.authority \/ (p # <<>> /\ p[1] = "/")
  IN [ scheme |-> raw.scheme,
       has_host |-> raw.authority,
       host |-> raw.host,
       port |-> IF raw.port = DefaultPort(raw.scheme) THEN NoPort ELSE raw.port,
       cannot_be_a_base |-> ~hier,
       path |-> IF hier THEN HierPath(p, IsSpecial(raw.scheme)) ELSE p,
       query |-> [ some |-> q <= Len(nofr),
                   val |-> PercentEncode(SubSeq(nofr, q + 1, Len(nofr)), QueryEncodeSet) ] ]

\* Url::set_path (line 153).
set_path(url, np) ==
  IF url.cannot_be_a_base
  THEN [url EXCEPT !.path = IF np # <<>> /\ np[1] = "/"
                            THEN <<"%", "2", "F">> \o Tail(np) ELSE np]
  ELSE [url EXCEPT !.path = HierPath(np, IsSpecial(url.scheme))]

\* The text of a Url, as Url::as_str gives it.
UrlText(url) ==
  [ scheme |-> url.scheme, authority |-> url.has_host, host |-> url.host,
    port |-> url.port,
    tail |-> url.path \o (IF url.query.some THEN <<"?">> \o url.query.val ELSE <<>>) ]

\* An is_opaque that never answers yes.
never_opaque(url) == FALSE

\* is_opaque (lines 173-175)
is_opaque(url) == url.path = <<>>

\* Lines 148-154 of normalize_url, given what normalize_path returned.
normalize_url_tail(url, normalized) ==
  LET np == ReplaceSlashDollar(normalized) IN
  IF np = url.path THEN url ELSE set_path(url, np)

\* Lines 46-54 of normalize: every "/"-separated piece of the path encoded.
EncodedPath(p) ==
  LET urls == SplitOn(p, "/") IN
  JoinWith([i \in 1..Len(urls) |-> encode(urls[i])], <<"/">>)

\* The query text of to_normalized_url (lines 74-81).
QueryString(params) ==
  LET query_string == [i \in 1..Len(params) |-> params[i][1] \o <<"=">> \o params[i][2]]
      joined       == JoinWith(query_string, <<"&">>)
  IN IF query_string # <<>> THEN <<"?">> \o joined ELSE joined

\* to_normalized_url (lines 59-83): "{}://{}{}{}{}".
to_normalized_url(url, params, normalized_path) ==
  [ scheme |-> url.scheme,
    authority |-> TRUE,
    host |-> IF url.has_host THEN url.host ELSE "",
    port |-> IF url.port # NoPort THEN (IF url.port = 80 THEN NoPort ELSE url.port)
             ELSE NoPort,
    tail |-> normalized_path \o QueryString(params) ]

(***************************************************************************)
(* Results                                                                 *)
(***************************************************************************)
Ok(v) == [tag |-> "Ok", val |-> v]
Err(e) == [tag |-> e, val |-> <<>>]
NoResult == [tag |-> "None", val |-> <<>>]

NoText == [scheme |-> "", authority |-> FALSE, host |-> "", port |-> NoPort, tail |-> <<>>]
NoUrl == UrlParse(NoText)

\* The result of normalize: [tag, text, pat].
OkText(t) == [tag |-> "Ok", text |-> t, pat |-> <<>>]
ErrText(e, r) == [tag |-> e, text |-> NoText, pat |-> r]
NoOutput == [tag |-> "None", text |-> NoText, pat |-> <<>>]

(***************************************************************************)
(* Inputs                                                                  *)
(***************************************************************************)
\* Most "&"-separated pairs of an enumerated query.
MaxPairs == 3

\* The pairs the queries are built from.
PairPool ==
  { <<"c","=","1">>,
    <<"a","=","5">>,
    <<"a","=","%","2","5","4","1">>,
    <<"%","7","5","=","b">>,
    <<"b","=","%","F","F">>,
    <<"=","%","F","F">>,
    <<"%","F","F","=","1">>,
    <<"u">>,
    <<>> }

Queries == { JoinWith(ps, <<"&">>) : ps \in SeqsUpTo(PairPool, MaxPairs) }

\* Queries tried with every path.
FewQueries ==
  { <<"c","=","1","&","b","=","2","&","a","=","5">>,
    <<"a","=","%","2","6","b","%","3","D","1">>,
    <<>> }

\* The removal patterns: u.* and ^c$ compile, [ and ( do not.
RegexU == <<"u", ".", "*">>
RegexC == <<"^", "c", "$">>
RegexBad == <<"[">>
RegexBad2 == <<"(">>

RegexPool ==
  { [some |-> FALSE, val |-> <<>>],
    [some |-> TRUE, val |-> <<>>],
    [some |-> TRUE, val |-> <<RegexU>>],
    [some |-> TRUE, val |-> <<RegexBad>>],
    [some |-> TRUE, val |-> <<RegexC, RegexU>>],
    [some |-> TRUE, val |-> <<RegexU, RegexBad>>],
    [some |-> TRUE, val |-> <<RegexBad, RegexBad2>>],
    [some |-> TRUE, val |-> <<RegexC, RegexBad, RegexU>>] }

\* Paths written after an authority.
HierPaths ==
  { <<>>,
    <<"/">>,
    <<"/","m">>,
    <<"/",".","/","m">>,
    <<"/","a","/","/","b">>,
    <<"/","a",":","b">>,
    <<"/","a","/","$","b","/","/","c">> }

\* Paths written after a scheme alone.
BarePaths ==
  { <<>>,
    <<"x">>,
    <<"a","/","/","b">>,
    <<".","/","a",":","b">>,
    <<"a","/",".","/","b">>,
    <<".",".","/","x">> }

\* The text after the authority: a path, then nothing or "?" and a query.
Tails(paths, queries) ==
  paths \cup { p \o <<"?">> \o q : p \in paths, q \in queries }

UrlTexts ==
  { [scheme |-> "https", authority |-> TRUE, host |-> "example.com", port |-> 8080, tail |-> t] :
      t \in Tails({<<"/","m">>}, Queries) }
  \cup
  { [scheme |-> "https", authority |-> TRUE, host |-> "example.com", port |-> pt, tail |-> t] :
      pt \in {NoPort, 80, 443}, t \in Tails(HierPaths, FewQueries) }
  \cup
  { [scheme |-> "foo", authority |-> TRUE, host |-> "h", port |-> NoPort, tail |-> t] :
      t \in Tails(HierPaths, FewQueries) }
  \cup
  { [scheme |-> "mailto", authority |-> FALSE, host |-> "", port |-> NoPort, tail |-> t] :
      t \in Tails(BarePaths, FewQueries) }

(***************************************************************************)
(* State                                                                   *)
(***************************************************************************)
VARIABLES
  pc,                 \* position in the running call
  entry,              \* the function called: "normalize_path" or "normalize"
  url_path,           \* the argument of normalize_path
  path,               \* the path buffer
  segs,               \* the segment table
  oi,                 \* the outer index of remove_dots
  path_res,           \* what normalize_path returned
  url,                \* self.url
  remove_param_regex, \* the argument of normalize
  nurl,               \* the url of normalize (line 45)
  normalized_path,    \* line 54
  params,             \* line 55
  result,             \* what normalize returned
  round,              \* 1: the first normalizer; 2: the one built from its result
  first               \* the result of round 1

pathvars == <<url_path, path, segs, oi, path_res>>
urlvars == <<url, remove_param_regex, nurl, normalized_path, params, result, round, first>>
vars == <<pc, entry, url_path, path, segs, oi, path_res,
          url, remove_param_regex, nurl, normalized_path, params, result, round, first>>

Init ==
  /\ pc = "idle"
  /\ entry = "none"
  /\ url_path = <<>>
  /\ path = <<>>
  /\ segs = <<>>
  /\ oi = 0
  /\ path_res = NoResult
  /\ url = NoUrl
  /\ remove_param_regex = [some |-> FALSE, val |-> <<>>]
  /\ nurl = NoUrl
  /\ normalized_path = <<>>
  /\ params = <<>>
  /\ result = NoOutput
  /\ round = 0
  /\ first = NoOutput

\* normalize_path called on a path (lines 157-158).
CallNormalizePath ==
  /\ pc = "idle"
  /\ \E s \in PathInputs :
       /\ url_path' = s
       /\ path' = s
  /\ entry' = "normalize_path"
  /\ pc' = "needs_normalization"
  /\ UNCHANGED <<segs, oi, path_res>>
  /\ UNCHANGED urlvars

\* UrlNormalizer::new (lines 36-41) on a URL text that parses.
New ==
  /\ pc = "idle"
  /\ \E t \in UrlTexts : url' = UrlParse(t)
  /\ entry' = "normalize"
  /\ round' = 1
  /\ pc' = "new"
  /\ UNCHANGED pathvars
  /\ UNCHANGED <<remove_param_regex, nurl, normalized_path, params, result, first>>

\* normalize called (line 44), and normalize_url up to its call of
\* normalize_path (lines 143-148).  The second normalizer is given the
\* patterns of the first.
Normalize ==
  /\ pc = "new"
  /\ \E r \in RegexPool :
       /\ (round = 2 => r = remove_param_regex)
       /\ remove_param_regex' = r
  /\ IF is_opaque(url)
     THEN /\ nurl' = url
          /\ pc' = "encode"
          /\ UNCHANGED <<url_path, path>>
     ELSE /\ url_path' = url.path
          /\ path' = url.path
          /\ pc' = "needs_normalization"
          /\ UNCHANGED nurl
  /\ path_res' = NoResult
  /\ UNCHANGED <<entry, segs, oi>>
  /\ UNCHANGED <<url, normalized_path, params, result, round, first>>

\* Lines 159-163: the fast path, then split.  On an empty path
\* path.len() - 1 (line 180) underflows: a panic in a debug build, and in a
\* release build end is usize::MAX and path[0] panics.
NeedsNormalization ==
  /\ pc = "needs_normalization"
  /\ LET ns == needs_normalization(path) IN
     IF path = <<>>
     THEN /\ pc' = "panic"
          /\ UNCHANGED <<path, segs, path_res>>
     ELSE IF ns < 0
     THEN /\ path_res' = Ok(url_path)
          /\ pc' = "path_ret"
          /\ UNCHANGED <<path, segs>>
     ELSE LET s == split(path, ns) IN
          IF s.panic
          THEN /\ pc' = "panic"
               /\ UNCHANGED <<path, segs, path_res>>
          ELSE IF s.err
          THEN /\ path_res' = Err("InternalError")
               /\ pc' = "path_ret"
               /\ UNCHANGED <<path, segs>>
          ELSE /\ path' = s.path
               /\ segs' = s.segs
               /\ pc' = "remove_dots"
               /\ UNCHANGED path_res
  /\ oi' = 0
  /\ UNCHANGED <<entry, url_path>>
  /\ UNCHANGED urlvars

\* Line 164: one iteration of remove_dots' for loop, or its end.
RemoveDots ==
  /\ pc = "remove_dots"
  /\ IF oi >= Len(segs)
     THEN /\ pc' = "maybe_add_leading_dot"
          /\ UNCHANGED <<segs, oi>>
     ELSE LET r == RemoveDotsIter(path, segs, oi) IN
          IF r.panic
          THEN /\ pc' = "panic"
               /\ UNCHANGED <<segs, oi>>
          ELSE IF r.brk
          THEN /\ pc' = "maybe_add_leading_dot"
               /\ UNCHANGED <<segs, oi>>
          ELSE /\ segs' = r.segs
               /\ oi' = oi + 1
               /\ UNCHANGED pc
  /\ UNCHANGED <<entry, url_path, path, path_res>>
  /\ UNCHANGED urlvars

\* Line 166.
MaybeAddLeadingDot ==
  /\ pc = "maybe_add_leading_dot"
  /\ LET r == maybe_add_leading_dot(path, segs) IN
       /\ path' = r.path
       /\ segs' = r.segs
  /\ pc' = "join"
  /\ UNCHANGED <<entry, url_path, oi, path_res>>
  /\ UNCHANGED urlvars

\* Lines 168-170.
Join ==
  /\ pc = "join"
  /\ LET r == join(path, segs) IN
       /\ path' = r.path
       /\ path_res' = IF r.err THEN Err("InternalError") ELSE Ok(SubSeq(r.path, 1, r.p))
  /\ pc' = "path_ret"
  /\ UNCHANGED <<entry, url_path, segs, oi>>
  /\ UNCHANGED urlvars

\* normalize_path returned to normalize_url (lines 148-154), which returns
\* to normalize (line 45).
NormalizeUrlReturn ==
  /\ pc = "path_ret"
  /\ entry = "normalize"
  /\ IF path_res.tag # "Ok"
     THEN /\ result' = ErrText(path_res.tag, <<>>)
          /\ pc' = "done"
          /\ UNCHANGED nurl
     ELSE /\ nurl' = normalize_url_tail(url, path_res.val)
          /\ pc' = "encode"
          /\ UNCHANGED result
  /\ UNCHANGED entry
  /\ UNCHANGED pathvars
  /\ UNCHANGED <<url, remove_param_regex, normalized_path, params, round, first>>

\* Lines 46-54.  The encoder's output is ASCII, so from_utf8 succeeds.
EncodePath ==
  /\ pc = "encode"
  /\ normalized_path' = EncodedPath(nurl.path)
  /\ pc' = "create_parameter_map"
  /\ UNCHANGED entry
  /\ UNCHANGED pathvars
  /\ UNCHANGED <<url, remove_param_regex, nurl, params, result, round, first>>

\* Lines 55-56.
CreateParameterMap ==
  /\ pc = "create_parameter_map"
  /\ LET r == create_parameter_map(nurl.query, remove_param_regex) IN
     IF r.err
     THEN /\ result' = ErrText("RegexParseError", r.pat)
          /\ UNCHANGED params
     ELSE /\ params' = r.params
          /\ result' = OkText(to_normalized_url(nurl, r.params, normalized_path))
  /\ pc' = "done"
  /\ UNCHANGED entry
  /\ UNCHANGED pathvars
  /\ UNCHANGED <<url, remove_param_regex, nurl, normalized_path, round, first>>

\* UrlNormalizer::new on the text normalize returned.  Only a text with a
\* host is taken up again.
Renormalize ==
  /\ pc = "done"
  /\ round = 1
  /\ result.tag = "Ok"
  /\ result.text.host # ""
  /\ first' = result
  /\ url' = UrlParse(result.text)
  /\ round' = 2
  /\ pc' = "new"
  /\ UNCHANGED entry
  /\ UNCHANGED pathvars
  /\ UNCHANGED <<remove_param_regex, nurl, normalized_path, params, result>>

Next ==
  \/ CallNormalizePath
  \/ New
  \/ Normalize
  \/ NeedsNormalization
  \/ RemoveDots
  \/ MaybeAddLeadingDot
  \/ Join
  \/ NormalizeUrlReturn
  \/ EncodePath
  \/ CreateParameterMap
  \/ Renormalize

Spec == Init /\ [][Next]_vars

(***************************************************************************)
(* What the specification says of a path, stated on its segments.          *)
(***************************************************************************)
NonEmpty(x) == x # <<>>
Dot == <<".">>
DotDot == <<".", ".">>
NotDot(x) == x # Dot

\* The non-empty "/"-separated segments of a path text.
Segments(s) == SelectSeq(SplitOn(s, "/"), NonEmpty)

RECURSIVE Resolve(_, _)
\* Dot-segment removal as the specification states it: "." is dropped, ".."
\* cancels the nearest kept segment to its left unless there is none or it
\* is "..", in which case the ".." is kept.
Resolve(ss, kept) ==
  IF ss = <<>> THEN kept
  ELSE IF Head(ss) = Dot THEN Resolve(Tail(ss), kept)
  ELSE IF Head(ss) = DotDot /\ kept # <<>> /\ kept[Len(kept)] # DotDot
  THEN Resolve(Tail(ss), SubSeq(kept, 1, Len(kept) - 1))
  ELSE Resolve(Tail(ss), Append(kept, Head(ss)))

\* Some ".." of ss finds a kept segment other than ".." to its left.
HasCancel(ss) ==
  \E i \in 1..Len(ss) :
    /\ ss[i] = DotDot
    /\ LET kept == Resolve(SubSeq(ss, 1, i - 1), <<>>)
       IN kept # <<>> /\ kept[Len(kept)] # DotDot

\* Some ".." of ss finds nothing to cancel.
HasUnresolved(ss) ==
  \E i \in 1..Len(ss) :
    /\ ss[i] = DotDot
    /\ LET kept == Resolve(SubSeq(ss, 1, i - 1), <<>>)
       IN kept = <<>> \/ kept[Len(kept)] = DotDot

HasDotSegment(s) == \E i \in 1..Len(Segments(s)) : Segments(s)[i] \in {Dot, DotDot}

HasDoubleSlash(s) == \E i \in 1..(Len(s) - 1) : s[i] = "/" /\ s[i + 1] = "/"

\* s with every run of "/" replaced by one "/".
Collapse(s) ==
  LET Keep(i) == ~(s[i] = "/" /\ i > 1 /\ s[i - 1] = "/")
      idx     == SelectSeq([i \in 1..Len(s) |-> i], Keep)
  IN [k \in 1..Len(idx) |-> s[idx[k]]]

\* normalize_path has returned or panicked on url_path.
PathFinished == path_res.tag # "None" \/ (pc = "panic" /\ url_path # <<>>)

\* C1: whenever a ".." of the path has a kept segment other than ".." to its
\* left, normalize_path returns Ok with the path from which that ".." and the
\* nearest kept segment before it are gone, the rest in order
\* (p/t/../f/./x gives p/f/x).
C1_CancelWithParent ==
  (PathFinished /\ HasCancel(Segments(url_path)))
    => /\ path_res.tag = "Ok"
       /\ Segments(path_res.val) = Resolve(Segments(url_path), <<>>)

\* C2: on a path with "." segments and no ".." segment, normalize_path returns
\* Ok with every "." segment gone and the other segments unchanged, in order.
C2_SingleDotRemoval ==
  (PathFinished
   /\ (\E i \in 1..Len(Segments(url_path)) : Segments(url_path)[i] = Dot)
   /\ (\A i \in 1..Len(Segments(url_path)) : Segments(url_path)[i] # DotDot))
    => /\ path_res.tag = "Ok"
       /\ Segments(path_res.val) = SelectSeq(Segments(url_path), NotDot)

\* C3: on a path with a ".." that has nothing to cancel, normalize_path returns
\* Ok and that ".." is in the output (../../x gives ../../x).
C3_UnresolvedDotDotKept ==
  (PathFinished /\ HasUnresolved(Segments(url_path)))
    => /\ path_res.tag = "Ok"
       /\ Segments(path_res.val) = Resolve(Segments(url_path), <<>>)
       /\ \E i \in 1..Len(Segments(path_res.val)) : Segments(path_res.val)[i] = DotDot

\* C4: the normalizer built from normalize(u), given the same patterns,
\* returns normalize(u) again.
C4_Idempotence ==
  (round = 2 /\ pc = "done") => result = first

\* C9: normalize_path never panics on a non-empty path: every index it uses
\* is in range and no removed segment (offset -1) is used as an offset.
C9_NoFatalFailure ==
  url_path # <<>> => pc # "panic"

\* C10: on a non-empty path with no "." or ".." segment normalize_path
\* returns Ok (never InternalError, never a panic) with every run of "/"
\* replaced by one "/" and nothing else changed; a path with no doubled "/"
\* is returned as it is; the output is never longer than the input.
C10_SlashCollapse ==
  (PathFinished /\ ~HasDotSegment(url_path))
    => /\ pc # "panic"
       /\ path_res = Ok(Collapse(url_path))
       /\ Len(path_res.val) <= Len(url_path)
       /\ (~HasDoubleSlash(url_path) => path_res.val = url_path)

\* C10's case: a path with doubled slashes went through split and join and
\* came back shorter.
C10_Witness ==
  /\ path_res.tag = "Ok"
  /\ ~HasDotSegment(url_path)
  /\ HasDoubleSlash(url_path)
  /\ Len(Segments(url_path)) >= 2
  /\ Len(path_res.val) < Len(url_path)

(***************************************************************************)
(* What the specification says of a query.                                 *)
(***************************************************************************)
\* The non-empty "&"-separated pairs of the stored URL's query.
Pairs == SelectSeq(SplitOn(url.query.val, "&"), NonEmpty)

\* The key of a pair: the text before the first "=", percent-decoded.
KeyOf(pair) == decode(Splitn2(pair, "=")[1])

\* The value of a pair: the text after the first "=", percent-decoded; empty
\* when there is none or it does not decode.
ValOf(pair) ==
  LET parts == Splitn2(pair, "=") IN
  IF Len(parts) = 2 /\ decode(parts[2]).ok THEN decode(parts[2]).val ELSE <<>>

\* Every pattern compiles.
RulesCompile == \A i \in 1..Len(remove_param_regex.val) : RegexCompiles(remove_param_regex.val[i])

\* Some pattern matches the key.
Removed(key) == \E i \in 1..Len(remove_param_regex.val) : is_match(remove_param_regex.val[i], key)

\* No two pairs have the same decoded key.
NoDuplicateKeys ==
  \A i, j \in 1..Len(Pairs) :
    (i # j /\ KeyOf(Pairs[i]).ok /\ KeyOf(Pairs[j]).ok) => KeyOf(Pairs[i]).val # KeyOf(Pairs[j]).val

\* The pairs in another order.
Permuted(f) == JoinWith([i \in 1..Len(Pairs) |-> Pairs[f[i]]], <<"&">>)

PairOrders == { f \in [1..Len(Pairs) -> 1..Len(Pairs)] : \A i, j \in 1..Len(Pairs) : i # j => f[i] # f[j] }

\* The keys of the map are strictly ascending.
KeysAscending == \A i \in 1..(Len(params) - 1) : StrLess(params[i][1], params[i + 1][1])

\* The query text written from the map: k=v joined by "&" after "?".
Emitted ==
  IF params = <<>> THEN <<>>
  ELSE <<"?">> \o JoinWith([i \in 1..Len(params) |-> params[i][1] \o <<"=">> \o params[i][2]], <<"&">>)

Returned == entry = "normalize" /\ pc = "done"

\* C5: with no duplicate keys, every order of the query's pairs gives the same
\* output text, and the surviving parameters are written k=v, joined by "&",
\* in ascending key order.
C5_QueryOrderInvariance ==
  (Returned /\ result.tag = "Ok" /\ url.query.some /\ NoDuplicateKeys)
    => /\ \A f \in PairOrders :
            to_normalized_url(
              nurl,
              create_parameter_map([some |-> TRUE, val |-> Permuted(f)], remove_param_regex).params,
              normalized_path) = result.text
       /\ KeysAscending
       /\ result.text.tail = normalized_path \o Emitted

\* C5's case: a query whose pairs are not in key order was rewritten.
C5_Witness ==
  /\ Returned /\ result.tag = "Ok" /\ url.query.some /\ NoDuplicateKeys
  /\ Len(params) >= 3
  /\ Len(Pairs) >= 3
  /\ StrLess(KeyOf(Pairs[2]).val, KeyOf(Pairs[1]).val)
  /\ result.text.tail # url.path \o <<"?">> \o url.query.val

\* C6: with patterns that compile, no parameter whose decoded key matches a
\* pattern is in the output, wherever it stood in the query; every parameter
\* whose decoded key matches none is there with the value of its last
\* occurrence; nothing else is there; and the output is in key order.
C6_FilterCorrectness ==
  (Returned /\ result.tag = "Ok" /\ url.query.some)
    => /\ \A i \in 1..Len(params) : ~Removed(params[i][1])
       /\ \A i \in 1..Len(Pairs) :
            (KeyOf(Pairs[i]).ok /\ ~Removed(KeyOf(Pairs[i]).val))
              => \E k \in 1..Len(params) :
                   /\ params[k][1] = KeyOf(Pairs[i]).val
                   /\ ( (\A j \in (i + 1)..Len(Pairs) : KeyOf(Pairs[j]) # KeyOf(Pairs[i]))
                        => params[k][2] = ValOf(Pairs[i]) )
       /\ \A k \in 1..Len(params) :
            \E i \in 1..Len(Pairs) : KeyOf(Pairs[i]).ok /\ KeyOf(Pairs[i]).val = params[k][1]
       /\ KeysAscending
       /\ result.text.tail = normalized_path \o Emitted

\* C6's case: a pair whose key is written percent-encoded was removed by a
\* pattern, a pair after it was kept, and a key occurred twice.
C6_Witness ==
  /\ Returned /\ result.tag = "Ok" /\ url.query.some
  /\ Len(Pairs) = 3
  /\ Pairs[1][1] = "%" /\ KeyOf(Pairs[1]).ok /\ Removed(KeyOf(Pairs[1]).val)
  /\ KeyOf(Pairs[2]) = KeyOf(Pairs[3])
  /\ ValOf(Pairs[2]) # ValOf(Pairs[3])
  /\ Len(params) = 1
  /\ params[1][2] = ValOf(Pairs[3])

\* Some pattern does not compile.
HasBadRule == remove_param_regex.some /\ ~RulesCompile

\* C7 as claimed: with a pattern that does not compile, normalize returns
\* RegexParseError whether or not the URL has a query.
C7_AnyUrlRejectsBadPattern ==
  (Returned /\ HasBadRule) => result.tag = "RegexParseError"

\* C7 as amended: with a pattern that does not compile and a URL that has a
\* query (even an empty one), normalize never returns a URL text, and what it
\* returns is RegexParseError with the first pattern that does not compile;
\* for a URL with no query the patterns are not compiled and a URL text is
\* returned.
C7_BadPatternWithQuery ==
  /\ (entry = "normalize" /\ HasBadRule /\ url.query.some)
       => /\ result.tag # "Ok"
          /\ (pc = "done" =>
                result = ErrText("RegexParseError",
                                 remove_param_regex.val[
                                   CHOOSE i \in 1..Len(remove_param_regex.val) :
                                     /\ ~RegexCompiles(remove_param_regex.val[i])
                                     /\ \A j \in 1..(i - 1) : RegexCompiles(remove_param_regex.val[j])]))
  /\ (Returned /\ HasBadRule /\ ~url.query.some) => result.tag = "Ok"

\* C7's case: two patterns that do not compile, and the first is reported.
C7_Witness ==
  /\ Returned /\ url.query.some
  /\ remove_param_regex.val = <<RegexBad, RegexBad2>>
  /\ result = ErrText("RegexParseError", RegexBad)

====
